---- MODULE Spec2Model ----
(***************************************************************************)
(* Model of set_index_remove_null_columns (python/data_loading.py): the    *)
(* recursive reduction of a pandas DataFrame.  One action is one pass of   *)
(* the function body (one level of the recursion); a pass ends in a        *)
(* recursive call after set_index, a recursive call after drop, or the     *)
(* return of (columns_statistics, feature_counts).                         *)
(*                                                                         *)
(* A DataFrame is a record                                                 *)
(*   columns    : the set of column labels                                 *)
(*   data       : column label -> sequence of cell values, one per row     *)
(*   dtypes     : column label -> dtype name                               *)
(*   index      : sequence of row labels                                   *)
(*   index_name : df.index.name ("None" when unset)                        *)
(* Cell values are NaN or positive integers.  The code looks at the cells  *)
(* of a column only through isnull() and nunique(), and the rows it drops  *)
(* are null in every column, so the non-null cells of a column never       *)
(* change.  An input column is therefore drawn as one representative of    *)
(* each (null mask, number of distinct values) pair.                       *)
(***************************************************************************)
EXTENDS Integers, Sequences, FiniteSets

VARIABLES table, df, nrows, columns_statistics, can_be_index, null_columns,
          feature_counts, result, outcome, pc, run, passes, first

vars == <<table, df, nrows, columns_statistics, can_be_index, null_columns,
          feature_counts, result, outcome, pc, run, passes, first>>

\* Largest number of rows of an input table.
MaxRows == 4

\* The missing value (NaN / None) that isnull() recognises.
NaN == 0

ColumnNames == {"A", "B"}

DTypes == {"int64", "float64", "object"}

NoName == "None"

----------------------------------------------------------------------------
\* Input tables, as pd.read_csv builds them.

\* The column of n rows that is null at the rows in nulls and whose other
\* cells hold, in order, 1, 2, ..., k - 1 and then k in every later cell.
Column(n, nulls, k) ==
    [i \in 1..n |->
        IF i \in nulls THEN NaN
        ELSE LET rank == Cardinality((1..i) \ nulls)
             IN  IF rank < k THEN rank ELSE k]

ColumnValues(n) ==
    {Column(n, nulls, k) : nulls \in SUBSET (1..n), k \in 1..(n + 1)}

\* pd.RangeIndex(start=0, stop=n, step=1)
RangeIndex(n) == [i \in 1..n |-> i - 1]

\* The dtype pd.read_csv infers for a column: int64 only when no cell is
\* missing, float64 when every cell of a non-empty column is missing, object
\* when the file has a header and no row.
ValidColumn(dtype, s) ==
    /\ dtype = "int64" => \A i \in DOMAIN s : s[i] # NaN
    /\ (Len(s) > 0 /\ \A i \in DOMAIN s : s[i] = NaN) => dtype = "float64"
    /\ Len(s) = 0 => dtype = "object"

\* The table load_exoplanet_data returns: one column at least, the default
\* index.
IsInputTable(t) ==
    /\ t.columns # {}
    /\ t.index_name = NoName
    /\ t.index = RangeIndex(Len(t.index))
    /\ \A c \in t.columns : ValidColumn(t.dtypes[c], t.data[c])

----------------------------------------------------------------------------
\* The pandas operations the function uses.

Rows(d) == 1..Len(d.index)

\* df.isnull().all(axis=1): the rows that are null in every column (every
\* row, when there is no column).
isnull_all(d) == {i \in Rows(d) : \A c \in d.columns : d.data[c][i] = NaN}

\* The cells of s at the positions in keep, from position i on, in order.
RECURSIVE TakeFrom(_, _, _)
TakeFrom(s, keep, i) ==
    IF i > Len(s) THEN <<>>
    ELSE IF i \in keep THEN <<s[i]>> \o TakeFrom(s, keep, i + 1)
    ELSE TakeFrom(s, keep, i + 1)

TakeRows(s, keep) == TakeFrom(s, keep, 1)

\* df[~null_rows]: a new DataFrame with the rows outside null_rows, which
\* keep their labels.
BooleanIndex(d, null_rows) ==
    LET keep == Rows(d) \ null_rows
    IN  [columns    |-> d.columns,
         data       |-> [c \in d.columns |-> TakeRows(d.data[c], keep)],
         dtypes     |-> d.dtypes,
         index      |-> TakeRows(d.index, keep),
         index_name |-> d.index_name]

\* Variant: only the first fully-null row is taken out.
DropFirstNullRow(d) ==
    LET nulls == isnull_all(d)
    IN  BooleanIndex(d, IF nulls = {} THEN {}
                        ELSE {CHOOSE i \in nulls : \A j \in nulls : i <= j})

DropNullRows(d) == BooleanIndex(d, isnull_all(d))

\* df.nunique(): distinct values of a column, NaN not counted.
nunique(d, c) == Cardinality({d.data[c][i] : i \in Rows(d)} \ {NaN})

\* df.isnull().sum()
isnull_sum(d, c) == Cardinality({i \in Rows(d) : d.data[c][i] = NaN})

\* nunique_counts[nunique_counts <= 1] = 0
UniqueCount(d, c) == IF nunique(d, c) <= 1 THEN 0 ELSE nunique(d, c)

\* Variant: the null count is left as counted.
NullCountAsCounted(d, c) == isnull_sum(d, c)

\* null_counts_per_column[nunique_counts <= 1] = nrows
NullCount(d, c) ==
    IF UniqueCount(d, c) <= 1 THEN Len(d.index) ELSE isnull_sum(d, c)

ColumnsStatistics(d) ==
    [c \in d.columns |->
        [DataType    |-> d.dtypes[c],
         NullCount   |-> NullCount(d, c),
         UniqueCount |-> UniqueCount(d, c)]]

is_fully_unique(stats, n) == {c \in DOMAIN stats : stats[c].UniqueCount = n}

\* df.index.name is None and df.index.equals(pd.RangeIndex(0, len(df), 1))
HasDefaultIndex(d) ==
    /\ d.index_name = NoName
    /\ d.index = RangeIndex(Len(d.index))

CanBeIndex(stats, n) ==
    {c \in is_fully_unique(stats, n) : stats[c].DataType # "float64"}

\* Variant: only columns whose null count reaches the row count are high.
ThresholdAllRows(n) == n

\* nrows // 2
HighNullThreshold(n) == n \div 2

is_high_null_columns(stats, n) ==
    {c \in DOMAIN stats : stats[c].NullCount >= HighNullThreshold(n)}

\* Variant: set_index(..., drop=False) keeps the column.
set_index_keep(d, col) ==
    [columns    |-> d.columns,
     data       |-> d.data,
     dtypes     |-> d.dtypes,
     index      |-> d.data[col],
     index_name |-> col]

\* df.set_index(c, inplace=True)
set_index(d, col) ==
    [columns    |-> d.columns \ {col},
     data       |-> [c \in d.columns \ {col} |-> d.data[c]],
     dtypes     |-> [c \in d.columns \ {col} |-> d.dtypes[c]],
     index      |-> d.data[col],
     index_name |-> col]

\* Variant: drop without inplace=True leaves the table as it was.
drop_not_inplace(d, cols) == d

\* df.drop(cols, axis=1, inplace=True)
drop(d, cols) ==
    [columns    |-> d.columns \ cols,
     data       |-> [c \in d.columns \ cols |-> d.data[c]],
     dtypes     |-> [c \in d.columns \ cols |-> d.dtypes[c]],
     index      |-> d.index,
     index_name |-> d.index_name]

\* Series.value_counts() of the 'Data Type' of a set of columns, reindexed
\* on the dtypes present in the table with fill_value=0.
TypeCount(stats, cols, t) ==
    Cardinality({c \in cols : stats[c].DataType = t})

dtypes_present(stats) == {stats[c].DataType : c \in DOMAIN stats}

no_nulls_columns(stats) == {c \in DOMAIN stats : stats[c].NullCount = 0}

RECURSIVE SumOver(_, _)
SumOver(f, S) ==
    IF S = {} THEN 0
    ELSE LET x == CHOOSE y \in S : TRUE IN f[x] + SumOver(f, S \ {x})

FeatureRow(stats, n, t) ==
    LET total  == TypeCount(stats, DOMAIN stats, t)
        nonull == TypeCount(stats, no_nulls_columns(stats), t)
        unique == TypeCount(stats, is_fully_unique(stats, n), t)
        rest   == total - unique - nonull
    IN  [WithoutNulls |-> nonull,
         FullyUnique  |-> unique,
         Rest         |-> rest,
         TotalPerDtype |-> nonull + unique + rest]

FeatureCounts(stats, n) ==
    LET rows == [t \in dtypes_present(stats) |-> FeatureRow(stats, n, t)]
        ts   == dtypes_present(stats)
    IN  [per_dtype |-> rows,
         Total |->
            [WithoutNulls  |-> SumOver([t \in ts |-> rows[t].WithoutNulls], ts),
             FullyUnique   |-> SumOver([t \in ts |-> rows[t].FullyUnique], ts),
             Rest          |-> SumOver([t \in ts |-> rows[t].Rest], ts),
             TotalPerDtype |-> SumOver([t \in ts |-> rows[t].TotalPerDtype], ts)]]

----------------------------------------------------------------------------
\* The state.
\*   table   the DataFrame object the caller passed to the outermost call
\*   df      the DataFrame the local name df is bound to
\*   nrows, columns_statistics, can_be_index, null_columns, feature_counts
\*           the locals of the pass that ran last
\*   result  what the outermost call returned
\*   outcome how the pass that ran last ended
\*   pc      "call": a (recursive) call is about to run; "returned"
\*   run     1 for the first reduction, 2 for the reduction of its output
\*   passes  passes run so far in this reduction
\*   first   the table and the result the first reduction ended with

NoResult == [columns_statistics |-> <<>>, feature_counts |-> <<>>]

NoTable == [columns |-> {}, data |-> <<>>, dtypes |-> <<>>,
            index |-> <<>>, index_name |-> NoName]

Init ==
    /\ \E n \in 0..MaxRows, cols \in SUBSET ColumnNames :
         \E d \in [cols -> ColumnValues(n)], t \in [cols -> DTypes] :
            /\ table = [columns |-> cols, data |-> d, dtypes |-> t,
                        index |-> RangeIndex(n), index_name |-> NoName]
            /\ IsInputTable(table)
    /\ df = table
    /\ nrows = Len(table.index)
    /\ columns_statistics = <<>>
    /\ can_be_index = {}
    /\ null_columns = {}
    /\ feature_counts = <<>>
    /\ result = NoResult
    /\ outcome = "none"
    /\ pc = "call"
    /\ run = 1
    /\ passes = 0
    /\ first = [df |-> NoTable, result |-> NoResult]

\* Variant: a tie between candidates is resolved by taking one of them.
CandidatesResolved(d, stats) ==
    LET cands == IF HasDefaultIndex(d)
                 THEN CanBeIndex(stats, Len(d.index)) ELSE {}
    IN  IF cands = {} THEN {} ELSE {CHOOSE c \in cands : TRUE}

\* Lines 58-61: the columns that could replace a default index.
Candidates(d, stats) ==
    IF HasDefaultIndex(d) THEN CanBeIndex(stats, Len(d.index)) ELSE {}

\* Lines 37-55: the locals every pass computes from the filtered table d.
\* df = df[~null_rows] binds the local name df to a new DataFrame d: the
\* inplace calls that follow change d, and the caller's object stays as it
\* was passed.
Locals(d, stats) ==
    /\ nrows' = Len(d.index)
    /\ columns_statistics' = stats
    /\ can_be_index' = Candidates(d, stats)
    /\ passes' = passes + 1
    /\ UNCHANGED <<table, run, first>>

\* Lines 64-68: exactly one candidate; set it as index and recurse.
PassPromote ==
    /\ pc = "call"
    /\ LET d     == DropNullRows(df)
           stats == ColumnsStatistics(d)
           cands == Candidates(d, stats)
       IN  /\ Cardinality(cands) = 1
           /\ Locals(d, stats)
           /\ df' = set_index(d, CHOOSE c \in cands : TRUE)
    /\ outcome' = "promoted"
    /\ pc' = "call"
    /\ UNCHANGED <<null_columns, feature_counts, result>>

\* Lines 72-80: some column has many nulls; drop them all and recurse.
PassDrop ==
    /\ pc = "call"
    /\ LET d     == DropNullRows(df)
           stats == ColumnsStatistics(d)
           cands == Candidates(d, stats)
           high  == is_high_null_columns(stats, Len(d.index))
       IN  /\ Cardinality(cands) # 1
           /\ high # {}
           /\ Locals(d, stats)
           /\ null_columns' = high
           /\ df' = drop(d, high)
    /\ outcome' = "dropped"
    /\ pc' = "call"
    /\ UNCHANGED <<feature_counts, result>>

\* Lines 83-133: nothing to change; compute the feature counts and return.
PassFinal ==
    /\ pc = "call"
    /\ LET d     == DropNullRows(df)
           stats == ColumnsStatistics(d)
           cands == Candidates(d, stats)
           high  == is_high_null_columns(stats, Len(d.index))
           fc    == FeatureCounts(stats, Len(d.index))
       IN  /\ Cardinality(cands) # 1
           /\ high = {}
           /\ Locals(d, stats)
           /\ df' = d
           /\ feature_counts' = fc
           /\ result' = [columns_statistics |-> stats, feature_counts |-> fc]
    /\ null_columns' = {}
    /\ outcome' = "final"
    /\ pc' = "returned"

\* The reducer is run again on the table the first reduction ended with.
SecondCall ==
    /\ pc = "returned"
    /\ run = 1
    /\ run' = 2
    /\ first' = [df |-> df, result |-> result]
    /\ table' = df
    /\ passes' = 0
    /\ outcome' = "none"
    /\ pc' = "call"
    /\ UNCHANGED <<df, nrows, columns_statistics, can_be_index, null_columns,
                   feature_counts, result>>

Next == PassPromote \/ PassDrop \/ PassFinal

Spec == Init /\ [][Next]_vars

\* The reduction followed by a second reduction of its output.
Next2 == PassPromote \/ PassDrop \/ PassFinal \/ SecondCall

Spec2 == Init /\ [][Next2]_vars

----------------------------------------------------------------------------
\* Properties.

Returned == pc = "returned"

Distinct(s) == \A i, j \in DOMAIN s : i # j => s[i] # s[j]

\* C1: when the reducer returns, every remaining column has a null count
\* (counted in the reduced table, and as listed in the returned statistics)
\* below half the number of rows of the reduced table; so no remaining
\* column is entirely null.
C1_NoHighNullColumnLeft ==
    Returned =>
        \A c \in df.columns :
            /\ 2 * isnull_sum(df, c) < Len(df.index)
            /\ 2 * result.columns_statistics[c].NullCount < Len(df.index)
            /\ isnull_sum(df, c) < Len(df.index)

\* A reduction returned a table that keeps a column with nulls.
C1_Witness ==
    /\ Returned
    /\ \E c \in df.columns : isnull_sum(df, c) > 0

\* C2: once a column is the index, it is not among the columns and the
\* index values are pairwise distinct, in every later state of the reduction.
C2_PromotedIndexUnique ==
    df.index_name # NoName =>
        /\ df.index_name \notin df.columns
        /\ Distinct(df.index)

\* A reduction that promoted a column, later dropped rows, and returned a
\* table of two rows or more.
C2_Witness ==
    /\ Returned
    /\ df.index_name # NoName
    /\ Len(df.index) >= 2
    /\ Len(df.index) < Len(table.index)

C4_CallerTableIsReduced ==
    (run = 1 /\ Returned) => table = df

\* C5: every restart is made on a table with fewer columns or fewer rows than
\* the table its pass was called on, neither count ever grows, and the number
\* of passes stays within the number of columns of the input table plus one.
C5_RestartsShrinkTheTable ==
    [][ (pc = "call" /\ passes' = passes + 1) =>
            /\ Cardinality(df'.columns) <= Cardinality(df.columns)
            /\ Len(df'.index) <= Len(df.index)
            /\ passes' <= Cardinality(table.columns) + 1
            /\ pc' = "call" =>
                  \/ Cardinality(df'.columns) < Cardinality(df.columns)
                  \/ Len(df'.index) < Len(df.index) ]_vars

\* A reduction that returned after two restarts.
C5_Witness ==
    /\ Returned
    /\ passes >= 3

\* The input table has two rows or more, column a holds distinct non-null
\* values and is not float64, and every other column holds at most one value.
C6_Input(a) ==
    /\ Len(table.index) >= 2
    /\ a \in table.columns
    /\ table.dtypes[a] # "float64"
    /\ nunique(table, a) = Len(table.index)
    /\ \A c \in table.columns \ {a} : nunique(table, c) <= 1

\* C6: on such a table the reducer ends with column a as the index and with
\* no column left.
C6_OnlyKeyColumn ==
    \A a \in ColumnNames :
        (run = 1 /\ Returned /\ C6_Input(a)) =>
            /\ df.index_name = a
            /\ df.columns = {}

\* Such a reduction returned, for an input with a second column.
C6_Witness ==
    /\ run = 1
    /\ Returned
    /\ \E a \in ColumnNames : C6_Input(a) /\ table.columns # {a}

\* The columns of the input table that are fully unique and not float64.
C7_InputCandidates ==
    {c \in table.columns :
        /\ table.dtypes[c] # "float64"
        /\ UniqueCount(table, c) = Len(table.index)}

C7_NoPromotionAndListed ==
    /\ df.index_name = NoName
    /\ Returned =>
          \A c \in C7_InputCandidates :
              /\ c \in DOMAIN result.columns_statistics
              /\ result.columns_statistics[c].UniqueCount = nrows
              /\ nrows = Len(table.index)

C8_PromotionExactlyWhenOneCandidate ==
    [][ (pc = "call" /\ passes' = passes + 1) =>
            LET d     == DropNullRows(df)
                cands == CanBeIndex(ColumnsStatistics(d), Len(d.index))
            IN  /\ (df.index_name = NoName /\ Cardinality(cands) = 1) <=>
                       outcome' = "promoted"
                /\ outcome' = "promoted" =>
                       /\ df'.index_name \in cands
                       /\ pc' = "call" ]_vars

\* C9 (as claimed): in a pass that reaches the pruning step, a column is
\* dropped exactly when its null count in the pass's statistics is at least
\* half the pass's row count.
C9_DroppedIffHalfNull ==
    outcome \in {"dropped", "final"} =>
        \A c \in DOMAIN columns_statistics :
            c \in null_columns <=>
                2 * columns_statistics[c].NullCount >= nrows

\* C10 (as claimed): in the returned feature counts, for every data type,
\* 'Rest' is the number of columns of the type that are neither null-free nor
\* fully unique, and it is not negative.
C10_RestIsTheRemainder ==
    Returned =>
        \A t \in DOMAIN feature_counts.per_dtype :
            LET stats == result.columns_statistics
                other == (DOMAIN stats \ no_nulls_columns(stats))
                             \ is_fully_unique(stats, nrows)
            IN  /\ feature_counts.per_dtype[t].Rest =
                       TypeCount(stats, other, t)
                /\ feature_counts.per_dtype[t].Rest >= 0

====
